---- MODULE Spec2Model ----
(***************************************************************************)
(* Model of homework_bot (src/homework.py): a polling agent that asks the  *)
(* homework-review API for the status of the user's homework and relays    *)
(* the verdict to a Telegram chat.                                         *)
(*                                                                         *)
(* The program's Russian message texts are written here in ASCII; every    *)
(* text keeps the parts the program interpolates into it.                  *)
(***************************************************************************)
EXTENDS Integers, Sequences, FiniteSets, TLC

VARIABLES
    PRACTICUM_TOKEN,    \* os.getenv('PRACTICUM_TOKEN')
    TELEGRAM_TOKEN,     \* os.getenv('TELEGRAM_TOKEN')
    TELEGRAM_CHAT_ID,   \* os.getenv('TELEGRAM_CHAT_ID')
    pc,                 \* position of main()
    fatal,              \* type of the exception that ended the process, or ""
    previous_message,   \* main's local previous_message
    timestamp,          \* main's local timestamp
    response,           \* main's local response (live from fetch to notify)
    homeworks,          \* main's local homeworks (live from validate to parse)
    message,            \* main's local message (live inside one iteration)
    error,              \* the exception caught by `except Exception as error`
    last_delivered,     \* history: text of the last message the chat accepted
    cur,                \* history: what the current iteration has done so far
    prev,               \* history: summary of the iteration before this one
    run                 \* history: the current run of empty-list iterations

vars == <<PRACTICUM_TOKEN, TELEGRAM_TOKEN, TELEGRAM_CHAT_ID, pc, fatal,
          previous_message, timestamp, response, homeworks, message, error,
          last_delivered, cur, prev, run>>

-----------------------------------------------------------------------------
(* Bounds of the model *)

\* process start times and values of a response's `time` field: 1..MaxTime
MaxTime == 1

-----------------------------------------------------------------------------
(* Python / JSON values *)

None == [t |-> "null", v |-> 0]
Str(s) == [t |-> "str", v |-> s]
Num(n) == [t |-> "int", v |-> n]
List(s) == [t |-> "list", v |-> s]
Dict(d) == [t |-> "dict", v |-> d]

\* dict.get(key): the value under key, None when the key is absent
get(d, key) == IF key \in DOMAIN d.v THEN d.v[key] ELSE None

\* f'{value}' for the values the program interpolates
Format(value) ==
    CASE value.t = "null" -> "None"
      [] value.t = "int" -> ToString(value.v)
      [] value.t = "str" -> value.v
      [] OTHER -> "<" \o value.t \o ">"

\* the outcome of a call: a returned value or a raised exception
Return(value) == [ok |-> TRUE, val |-> value, exc |-> [type |-> "", text |-> ""]]
Raise(type, text) == [ok |-> FALSE, val |-> None, exc |-> [type |-> type, text |-> text]]
NoError == [type |-> "", text |-> ""]

-----------------------------------------------------------------------------
(* Program constants *)

OK == 200

HOMEWORK_VERDICTS ==
    [approved |-> "Work checked: the reviewer liked everything. Hooray!",
     reviewing |-> "Work taken for review by the reviewer.",
     rejected |-> "Work checked: the reviewer has remarks."]

\* the message main composes for an empty homeworks list
NoHomeworkMessage == "Error! The API response has no information about the homework."

\* the message main composes in `except Exception as error`
FailureMessage(err) == "Program failure: " \o err.text

-----------------------------------------------------------------------------
(* Inputs: environment variables, HTTP exchanges, chat transport *)

\* an environment variable is unset (None), set to the empty string, or set
EnvValues == {None, Str(""), Str("secret")}

HomeworkNames == {"X"}
StatusStrings == {"approved", "reviewing", "rejected", "unknown"}

\* one entry of the homeworks list: a mapping with any subset of the two
\* fields the program reads, a mapping whose status is a JSON array, or a
\* value that is no mapping
HomeworkEntries ==
    {Dict([status |-> Str(s), homework_name |-> Str(n)]) :
        s \in StatusStrings, n \in HomeworkNames}
    \cup {Dict([status |-> Str(s)]) : s \in StatusStrings}
    \cup {Dict([homework_name |-> Str(n)]) : n \in HomeworkNames}
    \cup {Dict([status |-> List(<<>>), homework_name |-> Str(n)]) : n \in HomeworkNames}
    \cup {Dict(<<>>), Str("junk")}

HomeworkLists == {List(<<>>)} \cup {List(<<e>>) : e \in HomeworkEntries}

\* values found under the key homeworks: null, not a list, a list
HomeworksValues == {None, Str("junk")} \cup HomeworkLists

TimeValues == {Num(n) : n \in 1..MaxTime}

\* parsed bodies: values that are no mapping, and mappings with or without
\* the keys homeworks and time
JsonBodies ==
    {List(<<>>)}
    \cup {Dict(<<>>)}
    \cup {Dict([homeworks |-> h]) : h \in HomeworksValues}
    \cup {Dict([time |-> n]) : n \in TimeValues}
    \cup {Dict([homeworks |-> h, time |-> n]) : h \in HomeworksValues, n \in TimeValues}

\* a body that is not JSON
InvalidJson == [t |-> "invalid", v |-> 0]

\* a local or a history field that holds nothing
Unset == [t |-> "unset", v |-> 0]

StatusCodes == {200, 201, 401}

\* what requests.get does: it raises requests.RequestException, or returns
\* a response object with a status code and a body; every status code comes
\* with a body that is no JSON and with one that is, 200 with every body
HttpExchanges ==
    {[raised |-> TRUE, status_code |-> 0, body |-> InvalidJson]}
    \cup {[raised |-> FALSE, status_code |-> c, body |-> b] :
            c \in StatusCodes, b \in {InvalidJson, Dict(<<>>)}}
    \cup {[raised |-> FALSE, status_code |-> OK, body |-> b] : b \in JsonBodies}

\* the exchanges possible with this API token: the API answers a request
\* that carries an empty token with 401 and never with a homework list
HttpExchangesWith(token) ==
    IF token = Str("")
    THEN {h \in HttpExchanges : h.raised \/ h.status_code = 401}
    ELSE HttpExchanges

\* whether bot.send_message goes through: either, except that the chat
\* service refuses every message addressed to an empty chat id
TransportOutcomes(chat_id) ==
    IF chat_id = Str("") THEN {FALSE} ELSE BOOLEAN

-----------------------------------------------------------------------------
(* The program's functions *)

\* check_tokens: raises BadTokensException when a variable is None
check_tokens(practicum_token, telegram_token, telegram_chat_id) ==
    LET tokens == <<practicum_token, telegram_token, telegram_chat_id>>
        check_value == \A i \in 1..3 : tokens[i] # None
    IN IF ~check_value
       THEN Raise("BadTokensException", "Environment variable is missing")
       ELSE Return(None)

\* telegram.Bot(token=...): the library rejects a token that has no
\* "<digits>:<key>" shape, the empty string among them, with InvalidToken
Bot(token) ==
    IF token = Str("")
    THEN Raise("InvalidToken", "Invalid token")
    ELSE Return(Str("bot"))

\* send_message: a TelegramError of bot.send_message is caught and turned
\* into False; transport_ok is whether bot.send_message went through
send_message(transport_ok) == transport_ok

\* response.json(): the parsed body, or the decoder's error
json(body) ==
    IF body = InvalidJson
    THEN Raise("JSONDecodeError", "Expecting value: line 1 column 1 (char 0)")
    ELSE Return(body)

\* mutant: a finally clause that does not look at the status code
get_api_answer_finally_NoStatusCheck(http) ==
    IF http.raised
    THEN Raise("UnboundLocalError",
               "local variable 'response' referenced before assignment")
    ELSE json(http.body)

\* the finally clause of get_api_answer; it reads the local `response`,
\* which is bound only when requests.get returned
get_api_answer_finally(http) ==
    IF http.raised
    THEN Raise("UnboundLocalError",
               "local variable 'response' referenced before assignment")
    ELSE IF http.status_code # OK
    THEN Raise("HTTPError",
               "Request to the endpoint returned status code: "
                   \o ToString(http.status_code))
    ELSE json(http.body)

\* get_api_answer: try requests.get; except RequestException: raise
\* ConnectionError; finally: check the status, return response.json().
\* Each path of the finally clause leaves it by raise or by return, which
\* discards the exception the except clause raised.
get_api_answer(http) ==
    LET except_clause ==
            IF http.raised
            THEN Raise("ConnectionError", "API request error")
            ELSE Return(Unset)
        finally_clause == get_api_answer_finally(http)
    IN IF finally_clause.ok \/ finally_clause.exc # NoError
       THEN finally_clause
       ELSE except_clause

\* mutant: a homeworks value of None reported as a value of the wrong type
check_response_NoneAsTypeError(resp) ==
    IF resp.t # "dict"
    THEN Raise("TypeError", "Data structure <" \o resp.t \o "> is not a dict")
    ELSE IF get(resp, "homeworks").t # "list"
    THEN Raise("TypeError", "Data under key homeworks does not come as a list")
    ELSE Return(get(resp, "homeworks"))

\* check_response
check_response(resp) ==
    IF resp.t # "dict"
    THEN Raise("TypeError", "Data structure <" \o resp.t \o "> is not a dict")
    ELSE IF get(resp, "homeworks") = None
    THEN Raise("EmptyResponseFromAPI", "Key homeworks is missing in the API response")
    ELSE IF get(resp, "homeworks").t # "list"
    THEN Raise("TypeError", "Data under key homeworks does not come as a list")
    ELSE Return(get(resp, "homeworks"))

\* mutant: the message built from the status, not from its verdict
parse_status_NoVerdict(homework) ==
    IF homework.t # "dict"
    THEN Raise("AttributeError",
               "'" \o homework.t \o "' object has no attribute 'get'")
    ELSE
    LET homework_status == get(homework, "status")
    IN IF homework_status.t \in {"list", "dict"}
       THEN Raise("TypeError", "unhashable type: '" \o homework_status.t \o "'")
       ELSE IF ~(homework_status.t = "str" /\ homework_status.v \in DOMAIN HOMEWORK_VERDICTS)
       THEN Raise("BadStatusException",
                  "Received status " \o Format(homework_status)
                      \o " is missing in the verdicts dictionary")
       ELSE IF "homework_name" \notin DOMAIN homework.v
       THEN Raise("KeyError",
                  "'Error in the structure of the homework status: 'homework_name''")
       ELSE Return(Str("Homework status changed \"" \o Format(homework.v["homework_name"])
                       \o "\". " \o homework_status.v))

\* mutant: the name looked up before the status
parse_status_NameFirst(homework) ==
    IF homework.t # "dict"
    THEN Raise("AttributeError",
               "'" \o homework.t \o "' object has no attribute 'get'")
    ELSE
    LET homework_status == get(homework, "status")
    IN IF "homework_name" \notin DOMAIN homework.v
       THEN Raise("KeyError",
                  "'Error in the structure of the homework status: 'homework_name''")
       ELSE IF homework_status.t \in {"list", "dict"}
       THEN Raise("TypeError", "unhashable type: '" \o homework_status.t \o "'")
       ELSE IF ~(homework_status.t = "str" /\ homework_status.v \in DOMAIN HOMEWORK_VERDICTS)
       THEN Raise("BadStatusException",
                  "Received status " \o Format(homework_status)
                      \o " is missing in the verdicts dictionary")
       ELSE Return(Str("Homework status changed \"" \o Format(homework.v["homework_name"])
                       \o "\". " \o HOMEWORK_VERDICTS[homework_status.v]))

\* parse_status; `homework_status not in HOMEWORK_VERDICTS` hashes the
\* status, which raises TypeError for a list or a dict
parse_status(homework) ==
    IF homework.t # "dict"
    THEN Raise("AttributeError",
               "'" \o homework.t \o "' object has no attribute 'get'")
    ELSE
    LET homework_status == get(homework, "status")
    IN IF homework_status.t \in {"list", "dict"}
       THEN Raise("TypeError", "unhashable type: '" \o homework_status.t \o "'")
       ELSE IF ~(homework_status.t = "str" /\ homework_status.v \in DOMAIN HOMEWORK_VERDICTS)
       THEN Raise("BadStatusException",
                  "Received status " \o Format(homework_status)
                      \o " is missing in the verdicts dictionary")
       ELSE IF "homework_name" \notin DOMAIN homework.v
       THEN Raise("KeyError",
                  "'Error in the structure of the homework status: 'homework_name''")
       ELSE Return(Str("Homework status changed \"" \o Format(homework.v["homework_name"])
                       \o "\". " \o HOMEWORK_VERDICTS[homework_status.v]))

-----------------------------------------------------------------------------
(* The blocks of main's loop body, as functions of the locals they read *)

\* mutant: the send without the comparison with previous_message
SendIfNew_NoCompare(prev_msg, msg, transport_ok) ==
    IF send_message(transport_ok)
    THEN [previous_message |-> msg, sent |-> "ok"]
    ELSE [previous_message |-> prev_msg, sent |-> "failed"]

\* mutant: a delivered message that is not remembered
SendIfNew_Forgets(prev_msg, msg, transport_ok) ==
    IF msg # prev_msg
    THEN [previous_message |-> prev_msg,
          sent |-> IF send_message(transport_ok) THEN "ok" ELSE "failed"]
    ELSE [previous_message |-> prev_msg, sent |-> "none"]

\* mutant: a message remembered although its send failed
SendIfNew_RemembersFailed(prev_msg, msg, transport_ok) ==
    IF msg # prev_msg
    THEN [previous_message |-> msg,
          sent |-> IF send_message(transport_ok) THEN "ok" ELSE "failed"]
    ELSE [previous_message |-> prev_msg, sent |-> "none"]

\* `if message != previous_message: if send_message(bot, message):
\* previous_message = message`: the empty-list block and the except block.
\* sent is "none" when no send was tried, else "ok" or "failed".
SendIfNew(prev_msg, msg, transport_ok) ==
    IF msg # prev_msg
    THEN IF send_message(transport_ok)
         THEN [previous_message |-> msg, sent |-> "ok"]
         ELSE [previous_message |-> prev_msg, sent |-> "failed"]
    ELSE [previous_message |-> prev_msg, sent |-> "none"]

\* `if message != previous_message: send_message(bot, message);
\* previous_message = message; timestamp = response.get('time')`: the status
\* block, entered with timestamp already set to 0. The value send_message
\* returns is not read.
SendStatus(prev_msg, msg, ts, resp, transport_ok) ==
    IF msg # prev_msg
    THEN [previous_message |-> msg,
          timestamp |-> get(resp, "time"),
          sent |-> IF send_message(transport_ok) THEN "ok" ELSE "failed"]
    ELSE [previous_message |-> prev_msg, timestamp |-> ts, sent |-> "none"]

-----------------------------------------------------------------------------
(* History variables *)

\* the record of an iteration that starts with these locals
NewIteration(prev_msg, ts) ==
    [calls |-> <<>>,            \* the functions called so far, in order
     net_failed |-> FALSE,      \* requests.get raised RequestException
     status_code |-> 0,         \* status code of the response, 0 if none
     body |-> Unset,            \* body of the response just fetched
     raised |-> NoError,        \* the exception the try block raised
     msg |-> "",                \* the message composed
     sent |-> "none",           \* "none", "ok" or "failed"
     start_prev |-> prev_msg,   \* previous_message when the iteration began
     start_ts |-> ts]           \* timestamp when the iteration began

\* the summary kept of a finished iteration: its message, its send, and
\* whether it began with a previous_message other than its message
NoIteration == [msg |-> "", sent |-> "none", fresh |-> FALSE]

NoRun == [active |-> FALSE, fresh |-> FALSE, delivered |-> 0]

\* the run of empty-list iterations after one more of them
RunAfterEmpty(r, prev_msg, sent) ==
    LET base == IF r.active THEN r
                ELSE [active |-> TRUE,
                      fresh |-> prev_msg # NoHomeworkMessage,
                      delivered |-> 0]
    IN [base EXCEPT !.delivered = IF sent = "ok" /\ @ < 2 THEN @ + 1 ELSE @]

-----------------------------------------------------------------------------
(* State machine *)

Init ==
    /\ PRACTICUM_TOKEN \in EnvValues
    /\ TELEGRAM_TOKEN \in EnvValues
    /\ TELEGRAM_CHAT_ID \in EnvValues
    /\ pc = "start"
    /\ fatal = ""
    /\ previous_message = ""
    /\ timestamp = Unset
    /\ response = Unset
    /\ homeworks = Unset
    /\ message = ""
    /\ error = NoError
    /\ last_delivered = ""
    /\ cur = NewIteration("", Unset)
    /\ prev = NoIteration
    /\ run = NoRun

\* main, lines 159-162: check_tokens(), telegram.Bot(...), the two locals
Start ==
    /\ pc = "start"
    /\ LET checked == check_tokens(PRACTICUM_TOKEN, TELEGRAM_TOKEN, TELEGRAM_CHAT_ID)
           bot == Bot(TELEGRAM_TOKEN)
       IN IF ~checked.ok
          THEN /\ pc' = "crashed"
               /\ fatal' = checked.exc.type
               /\ UNCHANGED <<previous_message, timestamp, cur>>
          ELSE IF ~bot.ok
          THEN /\ pc' = "crashed"
               /\ fatal' = bot.exc.type
               /\ UNCHANGED <<previous_message, timestamp, cur>>
          ELSE \E now \in 1..MaxTime :
               /\ pc' = "fetch"
               /\ previous_message' = ""
               /\ timestamp' = Num(now)
               /\ cur' = NewIteration("", Num(now))
               /\ UNCHANGED fatal
    /\ UNCHANGED <<PRACTICUM_TOKEN, TELEGRAM_TOKEN, TELEGRAM_CHAT_ID, response,
                   homeworks, message, error, last_delivered, prev, run>>

\* line 165: response = get_api_answer(timestamp)
Fetch ==
    /\ pc = "fetch"
    /\ \E http \in HttpExchangesWith(PRACTICUM_TOKEN) :
        LET r == get_api_answer(http)
        IN /\ cur' = [cur EXCEPT !.calls = Append(@, "get_api_answer"),
                                 !.net_failed = http.raised,
                                 !.status_code = http.status_code,
                                 !.body = http.body,
                                 !.raised = r.exc]
           /\ IF r.ok
              THEN /\ response' = r.val
                   /\ pc' = "validate"
                   /\ UNCHANGED error
              ELSE /\ error' = r.exc
                   /\ pc' = "except"
                   /\ UNCHANGED response
    /\ UNCHANGED <<PRACTICUM_TOKEN, TELEGRAM_TOKEN, TELEGRAM_CHAT_ID, fatal,
                   previous_message, timestamp, homeworks, message,
                   last_delivered, prev, run>>

\* lines 166-167: homeworks = check_response(response); len(homeworks) == 0
Validate ==
    /\ pc = "validate"
    /\ LET r == check_response(response)
       IN /\ cur' = [cur EXCEPT !.calls = Append(@, "check_response"),
                                !.body = IF r.ok THEN Unset ELSE @,
                                !.raised = r.exc]
          /\ IF r.ok
             THEN /\ homeworks' = r.val
                  /\ pc' = IF Len(r.val.v) = 0 THEN "empty" ELSE "parse"
                  /\ UNCHANGED <<error, response>>
             ELSE /\ error' = r.exc
                  /\ pc' = "except"
                  /\ response' = Unset
                  /\ UNCHANGED homeworks
    /\ UNCHANGED <<PRACTICUM_TOKEN, TELEGRAM_TOKEN, TELEGRAM_CHAT_ID, fatal,
                   previous_message, timestamp, message, last_delivered, prev, run>>

\* mutant: a `continue` that goes to the next fetch and skips the sleep
NotifyEmpty_SkipsSleep(transport_ok) ==
    /\ pc = "empty"
    /\ LET out == SendIfNew(previous_message, NoHomeworkMessage, transport_ok)
       IN /\ message' = NoHomeworkMessage
          /\ previous_message' = out.previous_message
          /\ last_delivered' = IF out.sent = "ok" THEN NoHomeworkMessage
                                ELSE last_delivered
          /\ cur' = [cur EXCEPT
                        !.calls = IF out.sent = "none" THEN @
                                  ELSE Append(@, "send_message"),
                        !.msg = NoHomeworkMessage,
                        !.sent = out.sent]
          /\ run' = RunAfterEmpty(run, previous_message, out.sent)
    /\ pc' = "fetch"
    /\ response' = Unset
    /\ homeworks' = Unset
    /\ UNCHANGED <<PRACTICUM_TOKEN, TELEGRAM_TOKEN, TELEGRAM_CHAT_ID, fatal,
                   timestamp, error, prev>>

\* lines 168-174: the empty-list block, left through `continue`
NotifyEmpty(transport_ok) ==
    /\ pc = "empty"
    /\ LET out == SendIfNew(previous_message, NoHomeworkMessage, transport_ok)
       IN /\ message' = NoHomeworkMessage
          /\ previous_message' = out.previous_message
          /\ last_delivered' = IF out.sent = "ok" THEN NoHomeworkMessage
                                ELSE last_delivered
          /\ cur' = [cur EXCEPT
                        !.calls = IF out.sent = "none" THEN @
                                  ELSE Append(@, "send_message"),
                        !.msg = NoHomeworkMessage,
                        !.sent = out.sent]
          /\ run' = RunAfterEmpty(run, previous_message, out.sent)
    /\ pc' = "sleep"
    /\ response' = Unset
    /\ homeworks' = Unset
    /\ UNCHANGED <<PRACTICUM_TOKEN, TELEGRAM_TOKEN, TELEGRAM_CHAT_ID, fatal,
                   timestamp, error, prev>>

\* mutant: the timestamp reset before parse_status is called
Parse_ResetsTimestampFirst ==
    /\ pc = "parse"
    /\ LET r == parse_status(homeworks.v[1])
       IN /\ cur' = [cur EXCEPT !.calls = Append(@, "parse_status"),
                                !.raised = r.exc,
                                !.msg = IF r.ok THEN r.val.v ELSE @]
          /\ IF r.ok
             THEN /\ message' = r.val.v
                  /\ pc' = "parsed"
                  /\ UNCHANGED <<error, response>>
             ELSE /\ error' = r.exc
                  /\ pc' = "except"
                  /\ response' = Unset
                  /\ UNCHANGED message
    /\ timestamp' = Num(0)
    /\ homeworks' = Unset
    /\ UNCHANGED <<PRACTICUM_TOKEN, TELEGRAM_TOKEN, TELEGRAM_CHAT_ID, fatal,
                   previous_message, last_delivered, prev, run>>

\* line 176: message = parse_status(homeworks[0])
Parse ==
    /\ pc = "parse"
    /\ LET r == parse_status(homeworks.v[1])
       IN /\ cur' = [cur EXCEPT !.calls = Append(@, "parse_status"),
                                !.raised = r.exc,
                                !.msg = IF r.ok THEN r.val.v ELSE @]
          /\ IF r.ok
             THEN /\ message' = r.val.v
                  /\ pc' = "parsed"
                  /\ UNCHANGED <<error, response>>
             ELSE /\ error' = r.exc
                  /\ pc' = "except"
                  /\ response' = Unset
                  /\ UNCHANGED message
    /\ homeworks' = Unset
    /\ UNCHANGED <<PRACTICUM_TOKEN, TELEGRAM_TOKEN, TELEGRAM_CHAT_ID, fatal,
                   previous_message, timestamp, last_delivered, prev, run>>

\* line 177: timestamp = 0
ResetTimestamp ==
    /\ pc = "parsed"
    /\ timestamp' = Num(0)
    /\ pc' = "notify"
    /\ UNCHANGED <<PRACTICUM_TOKEN, TELEGRAM_TOKEN, TELEGRAM_CHAT_ID, fatal,
                   previous_message, response, homeworks, message, error,
                   last_delivered, cur, prev, run>>

\* lines 178-183: the status block
NotifyStatus(transport_ok) ==
    /\ pc = "notify"
    /\ LET out == SendStatus(previous_message, message, timestamp, response,
                             transport_ok)
       IN /\ previous_message' = out.previous_message
          /\ timestamp' = out.timestamp
          /\ last_delivered' = IF out.sent = "ok" THEN message ELSE last_delivered
          /\ cur' = [cur EXCEPT
                        !.calls = IF out.sent = "none" THEN @
                                  ELSE Append(@, "send_message"),
                        !.sent = out.sent]
    /\ pc' = "sleep"
    /\ response' = Unset
    /\ UNCHANGED <<PRACTICUM_TOKEN, TELEGRAM_TOKEN, TELEGRAM_CHAT_ID, fatal,
                   homeworks, message, error, prev, run>>

\* mutant: an except block in which a failed send escalates and ends the
\* process
HandleException_Escalates(transport_ok) ==
    /\ pc = "except"
    /\ LET out == SendIfNew(previous_message, FailureMessage(error), transport_ok)
       IN /\ message' = FailureMessage(error)
          /\ previous_message' = out.previous_message
          /\ last_delivered' = IF out.sent = "ok" THEN FailureMessage(error)
                                ELSE last_delivered
          /\ cur' = [cur EXCEPT
                        !.calls = IF out.sent = "none" THEN @
                                  ELSE Append(@, "send_message"),
                        !.body = Unset,
                        !.msg = FailureMessage(error),
                        !.sent = out.sent]
          /\ pc' = IF out.sent = "failed" THEN "crashed" ELSE "sleep"
          /\ fatal' = IF out.sent = "failed" THEN "TelegramError" ELSE fatal
    /\ error' = NoError
    /\ UNCHANGED <<PRACTICUM_TOKEN, TELEGRAM_TOKEN, TELEGRAM_CHAT_ID,
                   timestamp, response, homeworks, prev, run>>

\* lines 184-189: except Exception as error
HandleException(transport_ok) ==
    /\ pc = "except"
    /\ LET out == SendIfNew(previous_message, FailureMessage(error), transport_ok)
       IN /\ message' = FailureMessage(error)
          /\ previous_message' = out.previous_message
          /\ last_delivered' = IF out.sent = "ok" THEN FailureMessage(error)
                                ELSE last_delivered
          /\ cur' = [cur EXCEPT
                        !.calls = IF out.sent = "none" THEN @
                                  ELSE Append(@, "send_message"),
                        !.body = Unset,
                        !.msg = FailureMessage(error),
                        !.sent = out.sent]
    /\ pc' = "sleep"
    /\ error' = NoError
    /\ UNCHANGED <<PRACTICUM_TOKEN, TELEGRAM_TOKEN, TELEGRAM_CHAT_ID, fatal,
                   timestamp, response, homeworks, prev, run>>

\* lines 190-191 and 163: finally time.sleep(RETRY_PERIOD), then the next
\* turn of `while True`
Sleep ==
    /\ pc = "sleep"
    /\ pc' = "fetch"
    /\ message' = ""
    /\ prev' = [msg |-> cur.msg, sent |-> cur.sent, fresh |-> cur.start_prev # cur.msg]
    /\ cur' = NewIteration(previous_message, timestamp)
    /\ run' = IF cur.msg = NoHomeworkMessage THEN run ELSE NoRun
    /\ UNCHANGED <<PRACTICUM_TOKEN, TELEGRAM_TOKEN, TELEGRAM_CHAT_ID, fatal,
                   previous_message, timestamp, response, homeworks, error,
                   last_delivered>>

Next ==
    \/ Start
    \/ Fetch
    \/ Validate
    \/ Parse
    \/ ResetTimestamp
    \/ \E transport_ok \in TransportOutcomes(TELEGRAM_CHAT_ID) : NotifyEmpty(transport_ok)
    \/ \E transport_ok \in TransportOutcomes(TELEGRAM_CHAT_ID) : NotifyStatus(transport_ok)
    \/ \E transport_ok \in TransportOutcomes(TELEGRAM_CHAT_ID) : HandleException(transport_ok)
    \/ Sleep

Spec == Init /\ [][Next]_vars

\* The loop never stops by itself, and a chat transport that is asked again
\* and again lets a message through at some time (the transport condition
\* the relay properties are stated under).
Delivers ==
    \/ NotifyEmpty(TRUE)
    \/ NotifyStatus(TRUE)
    \/ HandleException(TRUE)

FairSpec ==
    /\ Init
    /\ [][Next]_vars
    /\ WF_vars(Next)
    /\ SF_vars(Delivers /\ cur'.sent = "ok")

-----------------------------------------------------------------------------
(* Properties *)

Called(name) == \E i \in 1..Len(cur.calls) : cur.calls[i] = name
SendCount == Cardinality({i \in 1..Len(cur.calls) : cur.calls[i] = "send_message"})
JustFetched == cur.calls = <<"get_api_answer">> /\ cur.body # Unset
IterationDone == pc = "sleep"
Delivered(sent) == IF sent = "ok" THEN 1 ELSE 0

\* C1: a message is delivered only if its text differs from the text of the
\* message delivered last before it: no two deliveries in a row carry the
\* same text.
C1_NoRepeatedDelivery ==
    [][(cur.sent # "ok" /\ cur'.sent = "ok") => cur'.msg # last_delivered]_vars

\* the homework entries parse_status turns into a status message
ParsableEntries == {e \in HomeworkEntries : parse_status(e).ok}

\* the poll that just returned gave a homeworks list whose first entry is e
PollReturned(e) ==
    /\ pc = "validate"
    /\ response.t = "dict"
    /\ get(response, "homeworks").t = "list"
    /\ Len(get(response, "homeworks").v) > 0
    /\ get(response, "homeworks").v[1] = e

\* C2: if the chat can be written to, the loop keeps polling, the API keeps
\* returning the same first homework entry on every later poll and the
\* chat transport lets a send through at some time, the
\* status message of that entry is delivered (and is then the last message
\* delivered): a send of it that fails does not drop it for good.
C2_NewVerdictRelayed ==
    \A e \in ParsableEntries :
        (/\ TRUE \in TransportOutcomes(TELEGRAM_CHAT_ID)
         /\ []<>JustFetched
         /\ <>[](JustFetched => PollReturned(e)))
            => <>[](last_delivered = parse_status(e).val.v)

\* C3: at the start of every iteration previous_message is the text of the
\* last message delivered, or "" if none was.
C3_PreviousIsLastDelivered ==
    pc = "fetch" => previous_message = last_delivered

RunDeliveredBefore == run.delivered - Delivered(cur.sent)

\* C5 as stated: in every run of empty-list iterations the 'no homework'
\* message is tried on each iteration until one send succeeds, and is never
\* sent again in the run.
C5_EmptyRunOnce ==
    (IterationDone /\ cur.msg = NoHomeworkMessage)
        => /\ run.delivered <= 1
           /\ (RunDeliveredBefore = 0 => cur.sent # "none")
           /\ (RunDeliveredBefore > 0 => cur.sent = "none")

\* C5 amended: that holds of the runs that begin with a previous_message
\* other than the 'no homework' message; a run that begins with it sends
\* nothing.
C5_FreshEmptyRunOnce ==
    (IterationDone /\ cur.msg = NoHomeworkMessage)
        => /\ run.active
           /\ run.delivered <= 1
           /\ (run.fresh /\ RunDeliveredBefore = 0 => cur.sent # "none")
           /\ (run.fresh /\ RunDeliveredBefore > 0 => cur.sent = "none")
           /\ (~run.fresh => cur.sent = "none" /\ run.delivered = 0)

C5_Witness ==
    /\ IterationDone
    /\ cur.msg = NoHomeworkMessage
    /\ run.fresh
    /\ run.delivered = 1
    /\ cur.sent = "none"
    /\ prev.msg = NoHomeworkMessage
    /\ prev.sent = "ok"

\* C6: the timestamp never decreases, and it changes only in an iteration
\* that fetched, validated and parsed a response without error.
C6_TimestampMonotonic ==
    [][(pc # "start" /\ timestamp' # timestamp)
          => /\ timestamp.t = "int"
             /\ timestamp'.t = "int"
             /\ timestamp'.v > timestamp.v
             /\ cur'.calls[Len(cur'.calls)] \in {"parse_status", "send_message"}
             /\ cur'.raised = NoError]_vars

MissingOrEmpty(value) == value = None \/ value = Str("")

\* C7: with a credential missing or empty, main stops at startup, before
\* any network call is made: the loop is entered only with all three
\* credentials non-empty.
C7_EmptyCredentialStopsStartup ==
    (/\ pc # "start"
     /\ \/ MissingOrEmpty(PRACTICUM_TOKEN)
        \/ MissingOrEmpty(TELEGRAM_TOKEN)
        \/ MissingOrEmpty(TELEGRAM_CHAT_ID))
        => /\ pc = "crashed"
           /\ fatal # ""
           /\ cur.calls = <<>>

\* C8 as stated: a response whose status is not 2xx raises the bad-status
\* error and is neither validated nor parsed; a 2xx response returns the
\* parsed body.
C8_Non2xxRaises ==
    /\ (cur.status_code # 0 /\ cur.status_code \notin 200..299)
          => /\ cur.raised.type = "HTTPError"
             /\ ~Called("check_response")
             /\ ~Called("parse_status")
    /\ (JustFetched /\ cur.status_code \in 200..299 /\ cur.body # InvalidJson)
          => /\ pc = "validate"
             /\ response = cur.body

\* C8 amended: a response whose status is not 200 raises the bad-status
\* error and is neither validated nor parsed; a 200 response returns the
\* parsed body when the body is JSON, and raises the decoder's error when
\* it is not.
C8_Not200Raises ==
    /\ (cur.status_code # 0 /\ cur.status_code # 200)
          => /\ cur.raised.type = "HTTPError"
             /\ ~Called("check_response")
             /\ ~Called("parse_status")
    /\ (JustFetched /\ cur.status_code = 200 /\ cur.body # InvalidJson)
          => /\ pc = "validate"
             /\ response = cur.body
    /\ (JustFetched /\ cur.status_code = 200 /\ cur.body = InvalidJson)
          => /\ pc = "except"
             /\ cur.raised.type = "JSONDecodeError"

C8_Witness ==
    /\ IterationDone
    /\ cur.status_code = 401
    /\ cur.raised.type = "HTTPError"
    /\ cur.calls = <<"get_api_answer", "send_message">>

\* C9: when requests.get fails at network level, the error that reaches
\* the main loop is the ConnectionError of the except clause.
C9_RequestFailedError ==
    (pc = "except" /\ cur.net_failed) => error.type = "ConnectionError"

\* C10: an exception raised in the fetch, validate or parse stage is caught
\* at the loop boundary: the iteration composes the failure message, sends
\* it if and only if it differs from previous_message, and goes to the
\* sleep step; it sends no status message and the process stays in the loop.
C10_ExceptionHandled ==
    /\ (cur.raised # NoError => pc \in {"except", "sleep"})
    /\ (pc = "except" => error = cur.raised /\ error # NoError /\ ~Called("send_message"))
    /\ (IterationDone /\ cur.raised # NoError)
          => /\ cur.msg = FailureMessage(cur.raised)
             /\ (cur.sent # "none") <=> (cur.msg # cur.start_prev)
             /\ SendCount = IF cur.sent = "none" THEN 0 ELSE 1
             /\ previous_message = IF cur.sent = "ok" THEN cur.msg ELSE cur.start_prev
    /\ (pc = "crashed" => cur.calls = <<>> /\ fatal # "")

C10_Witness ==
    /\ IterationDone
    /\ cur.raised.type = "KeyError"
    /\ cur.calls = <<"get_api_answer", "check_response", "parse_status", "send_message">>
    /\ cur.sent = "ok"
    /\ previous_message = FailureMessage(cur.raised)

\* main is inside `while True`
InLoop == pc \notin {"start", "crashed"}

\* C11: a send that fails on the transport (status path, empty-list path or
\* except block) returns False and leaves the iteration at the sleep step
\* with the process alive; once the loop has started the process never
\* leaves it, and after a failed send a next fetch happens.
C11_FailedSendKeepsLooping ==
    /\ [](cur.sent = "failed" => IterationDone /\ fatal = "")
    /\ [][InLoop => InLoop']_vars
    /\ (cur.sent = "failed" ~> JustFetched)

C11_Witness ==
    /\ JustFetched
    /\ prev.sent = "failed"
    /\ prev.msg = FailureMessage(Raise("HTTPError",
                      "Request to the endpoint returned status code: 401").exc)

\* the entry is a mapping whose status is none of the keys of
\* HOMEWORK_VERDICTS (the status may be absent)
UnknownStatus(entry) ==
    /\ entry.t = "dict"
    /\ get(entry, "status") \notin {Str(s) : s \in DOMAIN HOMEWORK_VERDICTS}

\* C12: when the first homework entry has a status that is none of approved,
\* reviewing, rejected, parse_status raises BadStatusException and the
\* iteration goes to the except block; it sends no status message, and the
\* message it offers for delivery is the failure message of that exception.
C12_UnknownStatusFallsBack ==
    /\ [][(pc = "parse" /\ UnknownStatus(homeworks.v[1]))
            => /\ pc' = "except"
               /\ error'.type = "BadStatusException"
               /\ cur'.calls = <<"get_api_answer", "check_response", "parse_status">>]_vars
    /\ []((IterationDone /\ cur.raised.type = "BadStatusException")
            => /\ message = FailureMessage(cur.raised)
               /\ cur.msg = message
               /\ SendCount <= 1)

\* the response has a field named key
HasField(resp, key) == resp.t = "dict" /\ key \in DOMAIN resp.v

\* the validate step ends in the except block with an error of this type
ValidateRaises(type) ==
    /\ pc' = "except"
    /\ error'.type = type
    /\ UNCHANGED homeworks

\* the validate step returns the value under homeworks, unchanged
ValidateReturnsHomeworks ==
    /\ pc' \in {"empty", "parse"}
    /\ homeworks' = response.v["homeworks"]
    /\ error' = NoError

\* C13 as stated: check_response raises TypeError for a value that is no
\* mapping, EmptyResponseFromAPI for a mapping with no homeworks field,
\* TypeError for a mapping whose homeworks field is present but not a list,
\* and returns the homeworks list unchanged otherwise.
C13_ClassifiesByPresence ==
    [][pc = "validate"
        => /\ (response.t # "dict" => ValidateRaises("TypeError"))
           /\ (response.t = "dict" /\ ~HasField(response, "homeworks")
                  => ValidateRaises("EmptyResponseFromAPI"))
           /\ (HasField(response, "homeworks") /\ response.v["homeworks"].t # "list"
                  => ValidateRaises("TypeError"))
           /\ (HasField(response, "homeworks") /\ response.v["homeworks"].t = "list"
                  => ValidateReturnsHomeworks)]_vars

\* C13 amended: EmptyResponseFromAPI is raised for a mapping with no
\* homeworks field and for one whose homeworks field is null; TypeError is
\* raised for a homeworks field that is neither null nor a list.
C13_ClassifiesByValue ==
    [][pc = "validate"
        => /\ (response.t # "dict" => ValidateRaises("TypeError"))
           /\ (response.t = "dict" /\ get(response, "homeworks") = None
                  => ValidateRaises("EmptyResponseFromAPI"))
           /\ (response.t = "dict" /\ get(response, "homeworks").t \notin {"null", "list"}
                  => ValidateRaises("TypeError"))
           /\ (response.t = "dict" /\ get(response, "homeworks").t = "list"
                  => ValidateReturnsHomeworks)]_vars

C13_Witness ==
    /\ pc = "except"
    /\ cur.calls = <<"get_api_answer", "check_response">>
    /\ HasField(cur.body, "homeworks")
    /\ cur.body.v["homeworks"] = None
    /\ error.type = "EmptyResponseFromAPI"

\* the entry is a mapping with no homework_name field
NoName(entry) == entry.t = "dict" /\ "homework_name" \notin DOMAIN entry.v

\* the entry is a mapping whose status is a key of HOMEWORK_VERDICTS
KnownStatus(entry) ==
    /\ entry.t = "dict"
    /\ get(entry, "status") \in {Str(s) : s \in DOMAIN HOMEWORK_VERDICTS}

\* the parse step ends in the except block with an error of this type
ParseRaises(type) ==
    /\ pc' = "except"
    /\ error'.type = type
    /\ UNCHANGED <<previous_message, timestamp>>

\* C14 as stated: for an entry with no homework_name, parse_status raises
\* KeyError, whatever the entry's status is and whether it has one or not.
C14_NoNameRaisesKeyError ==
    [][(pc = "parse" /\ NoName(homeworks.v[1])) => ParseRaises("KeyError")]_vars

\* C14 amended: for an entry with no homework_name, parse_status raises
\* KeyError when the status is approved, reviewing or rejected; when the
\* status is absent or another string, the status is checked first and
\* BadStatusException is raised.
C14_NoNameKnownStatusRaisesKeyError ==
    [][(pc = "parse" /\ NoName(homeworks.v[1]))
        => IF KnownStatus(homeworks.v[1])
           THEN ParseRaises("KeyError")
           ELSE ParseRaises("BadStatusException")]_vars

C14_Witness ==
    /\ pc = "except"
    /\ cur.calls = <<"get_api_answer", "check_response", "parse_status">>
    /\ error.type = "KeyError"
    /\ previous_message = FailureMessage(Raise("BadStatusException",
            "Received status None is missing in the verdicts dictionary").exc)

\* the entry is a mapping with a homework_name field
HasName(entry) == entry.t = "dict" /\ "homework_name" \in DOMAIN entry.v

\* the verdict sentence of a status, as HOMEWORK_VERDICTS gives it
VerdictOf(status) ==
    CASE status = "approved" -> "Work checked: the reviewer liked everything. Hooray!"
      [] status = "reviewing" -> "Work taken for review by the reviewer."
      [] status = "rejected" -> "Work checked: the reviewer has remarks."

\* C15: for an entry with a name and a status among approved, reviewing,
\* rejected, parse_status returns the text made of the name and of the
\* verdict sentence of the status, a text that depends on the entry alone
\* (a second call on the same entry returns it again), and the call changes
\* neither previous_message nor timestamp.
C15_StatusMessageFromEntry ==
    [][(pc = "parse" /\ HasName(homeworks.v[1]) /\ KnownStatus(homeworks.v[1]))
        => /\ pc' = "parsed"
           /\ message' = "Homework status changed \""
                              \o homeworks.v[1].v["homework_name"].v \o "\". "
                              \o VerdictOf(homeworks.v[1].v["status"].v)
           /\ error' = NoError
           /\ UNCHANGED <<previous_message, timestamp>>]_vars

C15_Witness ==
    /\ pc = "parsed"
    /\ message = "Homework status changed \"X\". Work checked: the reviewer liked everything. Hooray!"
    /\ prev.msg = message
    /\ timestamp = cur.start_ts
    /\ previous_message = cur.start_prev

\* the response has the documented shape: a mapping with a homeworks list
\* of entries that carry a homework_name and a status string, and with no
\* field other than homeworks and current_date
DocumentedShape(resp) ==
    /\ resp.t = "dict"
    /\ DOMAIN resp.v \subseteq {"homeworks", "current_date"}
    /\ get(resp, "homeworks").t = "list"
    /\ \A i \in 1..Len(get(resp, "homeworks").v) :
          LET entry == get(resp, "homeworks").v[i]
          IN /\ HasName(entry)
             /\ get(entry, "homework_name").t = "str"
             /\ get(entry, "status").t = "str"

\* C16: the timestamp a fetch passes to get_api_answer is an integer: main
\* enters the loop with an integer, and the status block, run on a response
\* of the documented shape, leaves an integer for the next fetch (the steps
\* between the status block and the next fetch do not assign timestamp).
C16_FetchTimestampIsInteger ==
    /\ [][(pc = "start" /\ pc' = "fetch") => timestamp'.t = "int"]_vars
    /\ [][(pc = "notify" /\ DocumentedShape(response))
            => (pc' = "sleep" /\ timestamp'.t = "int")]_vars

FetchCount == Cardinality({i \in 1..Len(cur.calls) : cur.calls[i] = "get_api_answer"})

\* C17: an iteration fetches at most once and tries at most one send; each
\* of its last steps (status block, empty-list block left through continue,
\* except block) goes to the sleep step, the sleep step is reached only
\* after a fetch, the only step after it is the next iteration's fetch, and
\* a fetch is preceded by the sleep step or by the start of main; every
\* iteration that fetched reaches the sleep step.
C17_OneSleepPerIteration ==
    /\ [](FetchCount <= 1 /\ SendCount <= 1)
    /\ [](IterationDone => FetchCount = 1)
    /\ [][(pc \in {"empty", "notify", "except"}) => (pc' = "sleep")]_vars
    /\ [][pc = "sleep" => (pc' = "fetch" /\ cur'.calls = <<>>)]_vars
    /\ [][pc' = "fetch" => pc \in {"start", "sleep"}]_vars
    /\ (JustFetched ~> IterationDone)

C17_Witness ==
    /\ IterationDone
    /\ cur.calls = <<"get_api_answer", "check_response", "send_message">>
    /\ cur.msg = NoHomeworkMessage
    /\ prev.msg # ""
    /\ prev.sent = "none"

\* the iteration ended in the except block or got an empty homeworks list
EndedInExceptOrEmpty ==
    /\ IterationDone
    /\ (cur.raised # NoError \/ cur.msg = NoHomeworkMessage)

\* C18: an iteration that ends in the except block or gets an empty
\* homeworks list leaves timestamp as it was; it leaves previous_message as
\* it was when its send failed or was suppressed, and sets it to the message
\* it composed when send_message returned True.
C18_ErrorAndEmptyFrame ==
    EndedInExceptOrEmpty
        => /\ timestamp = cur.start_ts
           /\ cur.msg = message
           /\ (cur.sent = "ok" => previous_message = cur.msg)
           /\ (cur.sent # "ok" => previous_message = cur.start_prev)

C18_Witness ==
    /\ EndedInExceptOrEmpty
    /\ Called("parse_status")
    /\ cur.sent = "failed"
    /\ cur.start_prev # ""
    /\ previous_message = cur.start_prev
    /\ timestamp = cur.start_ts

\* the iteration that just ended composed the failure message the iteration
\* before it composed
SameErrorAgain ==
    /\ cur.raised # NoError
    /\ cur.msg = FailureMessage(cur.raised)
    /\ cur.msg = prev.msg

\* C19: if the chat can be written to and, from some iteration on, every
\* iteration fails with the same failure message, then (the transport
\* letting a send through at some time) that message is delivered, and from
\* then on the iterations send nothing.
C19_FailureNoticeRetried ==
    (/\ TRUE \in TransportOutcomes(TELEGRAM_CHAT_ID)
     /\ <>[](IterationDone => SameErrorAgain))
        => <>[](IterationDone => (last_delivered = cur.msg /\ cur.sent = "none"))

C19_Witness ==
    /\ IterationDone
    /\ SameErrorAgain
    /\ prev.sent = "failed"
    /\ cur.sent = "ok"
    /\ last_delivered = cur.msg

====
